---------------------------- MODULE Spec2Model ----------------------------
(***************************************************************************)
(* A model of py_event: Event (src/py_event/Event.py) and EventDispatcher  *)
(* (src/py_event/EventDispatcher.py).                                      *)
(*                                                                         *)
(* The listener table of an event is a Python dict keyed by weak           *)
(* references.  It is modelled as CPython keeps it: a sequence of entry    *)
(* slots in insertion order in which a deleted key leaves a dummy slot     *)
(* (Tomb).  The dict iterator used by __dispatch_event keeps the number of *)
(* keys it saw when it was created (used), the number of keys it still     *)
(* expects (len) and its position in the slots (pos), and raises           *)
(* RuntimeError when the dict changed size under it.  A dict of this size  *)
(* is resized, and its slots compacted, at the sixth insertion; a table    *)
(* sees fewer insertions in a run, so no resize happens within the bounds. *)
(*                                                                         *)
(* Listeners are arbitrary application code: each invocation does one of   *)
(* the operations Ops and returns or raises an Exception.  Only events of  *)
(* application emitters are triggered; listeners do not call loop().       *)
(***************************************************************************)
EXTENDS Integers, Sequences, FiniteSets, TLC

(* ------------------------------ bounds --------------------------------- *)
\* Number of Event.trigger calls in a run.
MaxTrig == 3
\* Number of register_listener calls in a run.
MaxReg == 2
\* Number of unregister / owner release / exit assignments in a run.
MaxOps == 1
\* Number of loop() calls in a run.
MaxLoops == 2
\* Runs of single calls on one table: number of register_listener calls, of
\* unregister calls and owner deaths, and of Event.trigger calls.
MaxTblReg == 4
MaxTblOps == 2
MaxTblTrig == 1
\* Runs of the singleton: number of dispatcher objects constructed, and
\* length of a dispatcher's queue.
MaxDisp == 3
MaxDispQueue == 2

(* ------------------------------ universe ------------------------------- *)
Owners == {"o1", "o2"}
Funcs == {"f", "g"}
UserEvents == {"A"}
BuiltIn == {"loop_start", "queue_empty", "loop_end"}
Events == UserEvents \cup BuiltIn
None == "None"
Tomb == "<dummy>"
Dispatchers == 1..MaxDisp
NoDisp == 0

VARIABLES
    queue,      \* EventDispatcher.__queue: sequence of <<event, event_data>>
    exit,       \* EventDispatcher.exit
    listeners,  \* Event.__listeners of every event: sequence of slots
    life,       \* per owner: "held" (strongly referenced by the application),
                \* "released" (only the running dispatch still refers to it), "dead"
    pc,         \* position of the running loop() call, "idle" outside loop()
    stack,      \* activations of __dispatch_event, innermost last
    nTrig, nReg, nOps, nLoops,   \* counters that bound the run
    popLog,     \* history: queue entries in the order loop() popped them
    trigLog,    \* history: queue entries in the order they were triggered
    log,        \* history of the loop() call that runs or has just ended: dispatches begun
    calls,      \* history of the current/last dispatch: callbacks invoked
    snap,       \* history: the listeners registered when the dispatch began
    dirty,      \* history: what changed the table under dispatch during the dispatch
    last,       \* history: the dispatch that has just ended (calls, snap, dirty, how)
    qeIdle,     \* history: a queue_empty dispatch left the queue empty ("start":
                \* before the while loop, "drain": inside it) and exit was not reset since
    result,     \* history: how the loop() call that has just ended did so: "returned",
                \* "raised"; "none" while it runs and once the application went on
    entry,      \* history: exit and queue as they were when that loop() call began,
                \* whether a listener assigned exit (set) or raised during it
    truthy,     \* per owner: the truth value of the object (bool(owner))
    born,       \* history, per owner: the listener_data of the registration that
                \* inserted the owner's present key in the table of A, 0 without a key
    tlast,      \* history: the call on the table of A that has just been made, the
                \* table before it and the exception it raised
    instance,   \* EventDispatcher.__instance: a dispatcher or NoDisp
    dispatcher, \* Event.__event_dispatcher: a dispatcher or NoDisp
    objs,       \* per dispatcher object: "none" (not constructed yet), "live",
                \* "reset" (its __del__ was called, the object lives on), "dead"
    dq,         \* per dispatcher object: its __queue
    slast,      \* history: the call on the singleton that has just been made
    stable      \* history: the dispatcher instance() returned first since the last
                \* explicit reset, NoDisp if it was not called since

vars == <<queue, exit, listeners, life, pc, stack, nTrig, nReg, nOps, nLoops,
          popLog, trigLog, log, calls, snap, dirty, last, qeIdle, result, entry,
          truthy, born, tlast, instance, dispatcher, objs, dq, slast, stable>>

\* the state of the singleton, and the part of the state only runs of single
\* calls on one table use
svars == <<instance, dispatcher, objs, dq, slast, stable>>
tvars == <<truthy, born, tlast>>
mvars == <<queue, exit, listeners, life, pc, stack, nTrig, nReg, nOps, nLoops,
           popLog, trigLog, log, calls, snap, dirty, last, qeIdle, result, entry>>

(* --------------------------- Event: the table -------------------------- *)
Slot(o, fns) == [ref |-> o, fns |-> fns]

\* a deletion loop that stops at the first pair it deletes
RemoveFunc_first(fns, f) ==
    IF \E i \in 1..Len(fns) : fns[i][1] = f
    THEN LET i == CHOOSE k \in 1..Len(fns) :
                     fns[k][1] = f /\ \A j \in 1..(k - 1) : fns[j][1] # f
         IN SubSeq(fns, 1, i - 1) \o SubSeq(fns, i + 1, Len(fns))
    ELSE fns

\* the (function, listener_data) pairs of fns whose function is not f
RECURSIVE RemoveFunc(_, _)
RemoveFunc(fns, f) ==
    IF fns = <<>> THEN <<>>
    ELSE IF Head(fns)[1] = f THEN RemoveFunc(Tail(fns), f)
         ELSE <<Head(fns)>> \o RemoveFunc(Tail(fns), f)

\* index of the slot of key o in tbl, 0 if o is not a key
KeyIndex(tbl, o) ==
    IF \E i \in 1..Len(tbl) : tbl[i].ref = o
    THEN CHOOSE i \in 1..Len(tbl) : tbl[i].ref = o
    ELSE 0

\* len(dict): the number of keys
Used(tbl) == Cardinality({i \in 1..Len(tbl) : tbl[i].ref # Tomb})

\* del dict[key]: the slot stays, as a dummy
DelKey(tbl, o) ==
    [i \in 1..Len(tbl) |-> IF tbl[i].ref = o THEN Slot(Tomb, <<>>) ELSE tbl[i]]

\* a table in which a new key takes the place a deleted key has left
register_listener_reuse(tbl, o, f, d) ==
    LET k == KeyIndex(tbl, o)
        t == KeyIndex(tbl, Tomb)
    IN
    IF k # 0 THEN [tbl EXCEPT ![k].fns = Append(@, <<f, d>>)]
    ELSE IF t # 0 THEN [tbl EXCEPT ![t] = Slot(o, <<<<f, d>>>>)]
    ELSE Append(tbl, Slot(o, <<<<f, d>>>>))

\* Event.register_listener(method, listener_data) with method = o.f
register_listener(tbl, o, f, d) ==
    LET k == KeyIndex(tbl, o) IN
    IF k = 0
    THEN Append(tbl, Slot(o, <<<<f, d>>>>))
    ELSE [tbl EXCEPT ![k].fns = Append(@, <<f, d>>)]

\* Event.unregister_object(instance)
unregister_object(tbl, o) ==
    IF KeyIndex(tbl, o) # 0 THEN DelKey(tbl, o) ELSE tbl

\* Event.unregister_method(method) with method = o.f
unregister_method(tbl, o, f) ==
    LET k == KeyIndex(tbl, o) IN
    IF k = 0 THEN tbl
    ELSE LET rest == RemoveFunc(tbl[k].fns, f) IN
         IF rest = <<>> THEN DelKey(tbl, o)
         ELSE [tbl EXCEPT ![k].fns = rest]

\* a weak reference callback that leaves the dead owner's key in the table
internal_unregister_listener_keep(tbl, o) == tbl

\* Event.internal_unregister_listener(listener_ref): the weak reference
\* callback, run when the owner dies (a KeyError in it is swallowed)
internal_unregister_listener(tbl, o) == DelKey(tbl, o)

\* Event.internal_get_listeners(): the table itself, not a copy
internal_get_listeners(tbls, e) == tbls[e]


\* the live entries of a table, flattened in dispatch order: <<owner, f, d>>
RECURSIVE Flatten(_)
Flatten(tbl) ==
    IF tbl = <<>> THEN <<>>
    ELSE (IF Head(tbl).ref = Tomb THEN <<>>
          ELSE [i \in 1..Len(Head(tbl).fns) |->
                   <<Head(tbl).ref, Head(tbl).fns[i][1], Head(tbl).fns[i][2]>>])
         \o Flatten(Tail(tbl))

(* ------------------------ EventDispatcher: queue ----------------------- *)
\* a queue that puts a triggered event in front
internal_queue_event_front(q, e, d) == <<<<e, d>>>> \o q

\* EventDispatcher.internal_queue_event(event, event_data)
internal_queue_event(q, e, d) == Append(q, <<e, d>>)

\* the activation record of __dispatch_event(event, event_data): the dict
\* iterator (used, len, pos), listener_object (obj), the list the inner loop
\* iterates (lst; att: it is still the table's list) and its index (ipos)
NewFrame(tbls, e, d) ==
    LET tbl == internal_get_listeners(tbls, e) IN
    [ev |-> e, data |-> d, used |-> Used(tbl), len |-> Used(tbl), pos |-> 0,
     obj |-> None, lst |-> <<>>, att |-> FALSE, ipos |-> 0]

\* a trigger that dispatches at once when called from a listener
trigger_nested(q, stk, tbls, e, d) ==
    IF stk = <<>>
    THEN [queue |-> internal_queue_event(q, e, d), stack |-> stk]
    ELSE [queue |-> q, stack |-> Append(stk, NewFrame(tbls, e, d))]

\* Event.trigger(event_data): queues the event and dispatches nothing
trigger(q, stk, tbls, e, d) ==
    [queue |-> internal_queue_event(q, e, d), stack |-> stk]

(* ------------------------ EventDispatcher.loop ------------------------- *)
Go(p, e, d, q, ex) == [pc |-> p, ev |-> e, data |-> d, queue |-> q, exit |-> ex]

\* a while loop that exit ends although events are queued
loop_while_until_exit(q, ex) ==
    IF q # <<>> /\ ~ex
    THEN Go("L130", Head(q)[1], Head(q)[2], Tail(q), ex)
    ELSE Go("L137", "loop_end", 0, q, ex)

\* the head of the while loop: pop and dispatch, or leave for loop_end
loop_while(q, ex) ==
    IF q # <<>>
    THEN Go("L130", Head(q)[1], Head(q)[2], Tail(q), ex)
    ELSE Go("L137", "loop_end", 0, q, ex)

\* after the dispatch of loop_start
loop_after_start(q, ex) ==
    IF ~ex /\ q = <<>>
    THEN Go("L125", "queue_empty", 0, q, ex)
    ELSE loop_while(q, ex)

\* a loop that never announces an empty queue after a popped event
loop_after_event_silent(q, ex) == loop_while(q, ex)

\* a loop that announces an empty queue whatever exit is
loop_after_event_ignores_exit(q, ex) ==
    IF q = <<>>
    THEN Go("L133", "queue_empty", 0, q, ex)
    ELSE loop_while(q, ex)

\* after the dispatch of a popped event
loop_after_event(q, ex) ==
    IF q = <<>> /\ ~ex
    THEN Go("L133", "queue_empty", 0, q, ex)
    ELSE loop_while(q, ex)

\* a loop that sets exit after every queue_empty dispatch
loop_after_queue_empty_exits(q, ex) == loop_while(q, TRUE)

\* after the dispatch of queue_empty inside the while loop
loop_after_queue_empty(q, ex) ==
    loop_while(q, IF q = <<>> THEN TRUE ELSE ex)

\* a loop() that returns with an empty queue: what loop_end listeners
\* triggered is discarded
loop_returns_empty(p, q, ex) ==
    CASE p = "L122" -> loop_after_start(q, ex)
      [] p = "L125" -> loop_while(q, ex)
      [] p = "L130" -> loop_after_event(q, ex)
      [] p = "L133" -> loop_after_queue_empty(q, ex)
      [] p = "L137" -> Go("idle", None, 0, <<>>, ex)

\* what loop() does when the dispatch it made at position p has returned
loop(p, q, ex) ==
    CASE p = "L122" -> loop_after_start(q, ex)
      [] p = "L125" -> loop_while(q, ex)
      [] p = "L130" -> loop_after_event(q, ex)
      [] p = "L133" -> loop_after_queue_empty(q, ex)
      [] p = "L137" -> Go("idle", None, 0, q, ex)

\* a dispatch without the try/except around the callback
CatchesException_not == FALSE

\* a listener that raises: the exception is caught and printed
CatchesException == TRUE

(* --------------------- what application code can do -------------------- *)
\* One operation of application code: of a listener while it runs, or of the
\* caller of loop() between two calls.  The event_data of the k-th trigger
\* is k and the listener_data of a registration is NextData; the built-in
\* dispatches pass None, written 0.
Op(t, e, o, f, b) == [t |-> t, e |-> e, o |-> o, f |-> f, b |-> b]
Ops ==
    {Op("none", None, None, None, FALSE)}
    \cup {Op("trigger", e, None, None, FALSE) : e \in UserEvents}
    \cup {Op("register", e, o, f, FALSE) : e \in Events, o \in Owners, f \in Funcs}
    \cup {Op("unregister_object", e, o, None, FALSE) : e \in Events, o \in Owners}
    \cup {Op("unregister_method", e, o, f, FALSE) : e \in Events, o \in Owners, f \in Funcs}
    \cup {Op("release", None, o, None, FALSE) : o \in Owners}
    \cup {Op("set_exit", None, None, None, b) : b \in BOOLEAN}

\* history: no dispatch has just ended
NoLast == [ev |-> None, at |-> None, calls |-> <<>>, snap |-> <<>>, dirty |-> {}, how |-> "none"]

\* history: no call on the table of A has just been made
NoCall == [call |-> Op("none", None, None, None, FALSE), before |-> <<>>, err |-> None, d |-> 0, queue |-> <<>>]

\* history: no call on the singleton has just been made
NoSingletonCall == [op |-> None, err |-> None, ret |-> NoDisp, instance |-> NoDisp,
                    dispatcher |-> NoDisp, stable |-> NoDisp,
                    objs |-> [d \in Dispatchers |-> "none"],
                    dq |-> [d \in Dispatchers |-> <<>>]]

\* history: no loop() call has just ended
NoEntry == [exit |-> FALSE, queue |-> <<>>, set |-> FALSE, raised |-> FALSE]

\* Owners are interchangeable, and so are the methods of an owner on one
\* event (the code compares methods within one table only): of the runs that
\* differ by a renaming only one is explored, the one in which the first
\* registration of the run is o1's and the first method an owner registers
\* under a new key is f.
FirstOfItsKind(op) ==
    /\ nReg = 0 => op.o = "o1"
    /\ op.f = "g" => KeyIndex(listeners[op.e], op.o) # 0

\* the operation is possible and within the bounds of the run
CanDo(op) ==
    CASE op.t = "none" -> TRUE
      [] op.t = "trigger" -> nTrig < MaxTrig
      [] op.t = "register" ->
            /\ nReg < MaxReg
            /\ life[op.o] # "dead"
            /\ FirstOfItsKind(op)
      [] op.t \in {"unregister_object", "unregister_method"} ->
            nOps < MaxOps /\ life[op.o] # "dead"
      [] op.t = "release" -> nOps < MaxOps /\ life[op.o] = "held"
      [] op.t = "set_exit" -> nOps < MaxOps /\ exit # op.b

\* the owner is listener_object of a running dispatch
HeldBy(stk, o) == \E i \in 1..Len(stk) : stk[i].obj = o

\* the end of the owners' lifetime: the weak reference callback of every
\* event they are registered on runs
RECURSIVE Purge(_, _)
Purge(tbl, dead) ==
    IF dead = {} THEN tbl
    ELSE LET o == CHOOSE x \in dead : TRUE IN
         Purge(internal_unregister_listener(tbl, o), dead \ {o})

Die(tbls, dead) == [e \in Events |-> Purge(tbls[e], dead)]

\* the list a running dispatch iterates follows the table's list while the
\* owner's key is in the table; unregister_method empties the list before it
\* deletes the key, unregister_object deletes the key and leaves the list
Sync(stk, tbls, op) ==
    [i \in 1..Len(stk) |->
        LET fr == stk[i] IN
        IF ~fr.att THEN fr
        ELSE IF tbls[fr.ev][fr.pos].ref = fr.obj
             THEN [fr EXCEPT !.lst = tbls[fr.ev][fr.pos].fns]
             ELSE [fr EXCEPT !.att = FALSE,
                             !.lst = IF op.t = "unregister_method" THEN <<>> ELSE @]]

\* the listener_data a registration passes: the number of the registration
\* among those the owner has on the event
NextData(tbl, o) ==
    IF KeyIndex(tbl, o) = 0 THEN 1 ELSE Len(tbl[KeyIndex(tbl, o)].fns) + 1

\* the state after the operation
ApplyOp(op, tbls, q, ex, lf, stk) ==
    LET same == [listeners |-> tbls, queue |-> q, exit |-> ex, life |-> lf, stack |-> stk]
        tab(t) == [same EXCEPT !.listeners = t, !.stack = Sync(stk, t, op)]
    IN
    CASE op.t = "none" -> same
      [] op.t = "trigger" ->
            LET r == trigger(q, stk, tbls, op.e, nTrig + 1) IN
            [same EXCEPT !.queue = r.queue, !.stack = r.stack]
      [] op.t = "register" ->
            tab([tbls EXCEPT ![op.e] = register_listener(@, op.o, op.f, NextData(@, op.o))])
      [] op.t = "unregister_object" ->
            tab([tbls EXCEPT ![op.e] = unregister_object(@, op.o)])
      [] op.t = "unregister_method" ->
            tab([tbls EXCEPT ![op.e] = unregister_method(@, op.o, op.f)])
      [] op.t = "release" ->
            IF HeldBy(stk, op.o)
            THEN [same EXCEPT !.life = [lf EXCEPT ![op.o] = "released"]]
            ELSE [same EXCEPT !.life = [lf EXCEPT ![op.o] = "dead"],
                              !.listeners = Die(tbls, {op.o})]
      [] op.t = "set_exit" -> [same EXCEPT !.exit = op.b]

Count(op) ==
    /\ nTrig' = IF op.t = "trigger" THEN nTrig + 1 ELSE nTrig
    /\ nReg' = IF op.t = "register" THEN nReg + 1 ELSE nReg
    /\ nOps' = IF op.t \in {"none", "trigger", "register"} THEN nOps ELSE nOps + 1
    /\ trigLog' = IF op.t = "trigger"
                   THEN Append(trigLog, [ev |-> op.e, data |-> nTrig + 1,
                                         during |-> IF stack = <<>> THEN 0 ELSE stack[Len(stack)].data])
                   ELSE trigLog
    /\ qeIdle' = IF op.t = "set_exit" /\ ~op.b THEN "no" ELSE qeIdle

\* application code between two loop() calls
App(op) ==
    /\ pc = "idle"
    /\ op.t # "none"
    /\ CanDo(op)
    /\ LET a == ApplyOp(op, listeners, queue, exit, life, stack) IN
       /\ listeners' = a.listeners
       /\ queue' = a.queue
       /\ exit' = a.exit
       /\ life' = a.life
       /\ stack' = a.stack
    /\ Count(op)
    /\ last' = NoLast
    /\ log' = <<>>
    /\ result' = "none"
    /\ entry' = NoEntry
    /\ UNCHANGED <<pc, nLoops, popLog, calls, snap, dirty, tvars, svars>>

(* ------------------- EventDispatcher.__dispatch_event ------------------ *)
Top == stack[Len(stack)]

\* the first live slot after position pos, 0 if there is none
NextSlot(tbl, pos) ==
    IF \E i \in (pos + 1)..Len(tbl) : tbl[i].ref # Tomb
    THEN CHOOSE i \in (pos + 1)..Len(tbl) :
            /\ tbl[i].ref # Tomb
            /\ \A j \in (pos + 1)..(i - 1) : tbl[j].ref = Tomb
    ELSE 0

\* if listener_object: the truth value of the owner decides
IsTrue(tr, o) == tr[o]

\* the inner loop over the owner's callbacks has no next item
InnerDone(fr) == fr.obj = None \/ fr.ipos >= Len(fr.lst)

\* the dict iterator's next(): "error", "stop" or "yield"
IterNext(fr, tbl) ==
    IF Used(tbl) # fr.used THEN "error"
    ELSE IF NextSlot(tbl, fr.pos) = 0 THEN "stop"
    ELSE IF fr.len = 0 THEN "error"
    ELSE "yield"

\* owners that only the dispatch kept alive and that no activation in stk
\* refers to any more
Orphans(lf, stk) == {o \in Owners : lf[o] = "released" /\ ~HeldBy(stk, o)}

Bury(lf, dead) == [o \in Owners |-> IF o \in dead THEN "dead" ELSE lf[o]]

\* history: a dispatch begins / ends
Begin(tbls, e) ==
    /\ calls' = <<>>
    /\ snap' = Flatten(tbls[e])
    /\ dirty' = {}

End(how) ==
    last' = [ev |-> Top.ev, at |-> pc, calls |-> calls, snap |-> snap, dirty |-> dirty,
             how |-> how]

\* an exception leaves __dispatch_event and loop(): nothing catches it
Unwind(tbls, lf) ==
    LET dead == Orphans(lf, <<>>) IN
    /\ stack' = <<>>
    /\ pc' = "idle"
    /\ result' = "raised"
    /\ life' = Bury(lf, dead)
    /\ listeners' = Die(tbls, dead)
    /\ End("aborted")
    /\ snap' = <<>>
    /\ dirty' = {}

\* loop() is called
CallLoop ==
    /\ pc = "idle"
    /\ stack = <<>>
    /\ nLoops < MaxLoops
    /\ nLoops' = nLoops + 1
    /\ pc' = "L122"
    /\ stack' = <<NewFrame(listeners, "loop_start", 0)>>
    /\ log' = <<[ev |-> "loop_start", data |-> 0, nt |-> 0]>>
    /\ entry' = [exit |-> exit, queue |-> queue, set |-> FALSE, raised |-> FALSE]
    /\ result' = "none"
    /\ Begin(listeners, "loop_start")
    /\ last' = NoLast
    /\ tlast' = NoCall
    /\ UNCHANGED <<queue, exit, listeners, life, nTrig, nReg, nOps, popLog, trigLog, qeIdle,
                   truthy, born, svars>>

\* for listener_ref in listeners: the table changed size under the iterator
DispatchRaise ==
    /\ stack # <<>>
    /\ InnerDone(Top)
    /\ IterNext(Top, internal_get_listeners(listeners, Top.ev)) = "error"
    /\ Unwind(listeners, life)
    /\ calls' = <<>>
    /\ UNCHANGED <<queue, exit, nTrig, nReg, nOps, nLoops, popLog, trigLog, log, entry, qeIdle,
                   tvars, svars>>

\* for listener_ref in listeners: the next owner; listener_object is rebound
DispatchNextOwner ==
    /\ stack # <<>>
    /\ InnerDone(Top)
    /\ IterNext(Top, internal_get_listeners(listeners, Top.ev)) = "yield"
    /\ LET tbl == internal_get_listeners(listeners, Top.ev)
           i == NextSlot(tbl, Top.pos)
           o == tbl[i].ref
           live == life[o] # "dead"
           serve == live /\ IsTrue(truthy, o)
           fr == [Top EXCEPT !.pos = i, !.len = @ - 1,
                             !.obj = IF live THEN o ELSE None,
                             !.lst = IF serve THEN tbl[i].fns ELSE <<>>,
                             !.att = serve, !.ipos = 0]
           stk == [stack EXCEPT ![Len(stack)] = fr]
           dead == Orphans(life, stk)
       IN
       /\ life' = Bury(life, dead)
       /\ listeners' = Die(listeners, dead)
       /\ stack' = Sync(stk, listeners', Op("release", None, None, None, FALSE))
       /\ dirty' = IF listeners'[Top.ev] # listeners[Top.ev]
                   THEN dirty \cup {"death"} ELSE dirty
    /\ last' = NoLast
    /\ UNCHANGED <<queue, exit, pc, nTrig, nReg, nOps, nLoops, popLog, trigLog,
                   log, calls, snap, result, entry, qeIdle, tvars, svars>>

\* the outer loop ends, __dispatch_event returns and loop() goes on to its
\* next dispatch or returns
DispatchReturn ==
    /\ stack # <<>>
    /\ InnerDone(Top)
    /\ IterNext(Top, internal_get_listeners(listeners, Top.ev)) = "stop"
    /\ LET stk == SubSeq(stack, 1, Len(stack) - 1)
           dead == Orphans(life, stk)
       IN
       /\ life' = Bury(life, dead)
       /\ listeners' = Die(listeners, dead)
       /\ End("complete")
       /\ IF stk # <<>>
          THEN /\ stack' = stk
               /\ UNCHANGED <<queue, exit, pc, popLog, log, calls, snap, dirty, result, qeIdle>>
          ELSE LET g == loop(pc, queue, exit) IN
               /\ qeIdle' = IF queue = <<>> /\ pc = "L125" THEN "start"
                             ELSE IF queue = <<>> /\ pc = "L133" THEN "drain"
                             ELSE qeIdle
               /\ pc' = g.pc
               /\ queue' = g.queue
               /\ exit' = g.exit
               /\ popLog' = IF g.pc = "L130" THEN Append(popLog, <<g.ev, g.data>>) ELSE popLog
               /\ IF g.ev = None
                  THEN /\ stack' = <<>>
                       /\ result' = "returned"
                       /\ calls' = <<>>
                       /\ snap' = <<>>
                       /\ dirty' = {}
                       /\ UNCHANGED log
                  ELSE /\ stack' = <<NewFrame(listeners', g.ev, g.data)>>
                       /\ log' = Append(log, [ev |-> g.ev, data |-> g.data, nt |-> 0])
                       /\ Begin(listeners', g.ev)
                       /\ UNCHANGED result
    /\ UNCHANGED <<nTrig, nReg, nOps, nLoops, trigLog, entry, tvars, svars>>

\* function(listener_object, event, event_data, listener_data): the next
\* callback of the owner runs, does op and returns or raises
Invoke(op, raises) ==
    /\ stack # <<>>
    /\ ~InnerDone(Top)
    /\ CanDo(op)
    /\ LET item == Top.lst[Top.ipos + 1]
           stk == [stack EXCEPT ![Len(stack)].ipos = @ + 1]
           a == ApplyOp(op, listeners, queue, exit, life, stk)
       IN
       /\ calls' = Append(calls, [o |-> Top.obj, f |-> item[1], ld |-> item[2],
                                  data |-> Top.data, raised |-> raises])
       /\ queue' = a.queue
       /\ exit' = a.exit
       /\ log' = IF op.t = "trigger"
                 THEN [log EXCEPT ![Len(log)].nt = @ + 1] ELSE log
       /\ entry' = [entry EXCEPT !.set = @ \/ op.t = "set_exit",
                                  !.raised = @ \/ raises]
       /\ IF raises /\ ~CatchesException
          THEN Unwind(a.listeners, a.life)
          ELSE /\ listeners' = a.listeners
               /\ life' = a.life
               /\ stack' = a.stack
               /\ dirty' = IF a.listeners[Top.ev] # listeners[Top.ev]
                           THEN dirty \cup {IF op.t = "release" THEN "death" ELSE op.t}
                           ELSE dirty
               /\ last' = NoLast
               /\ UNCHANGED <<pc, snap, result>>
    /\ Count(op)
    /\ UNCHANGED <<nLoops, popLog, tvars, svars>>

(* ----------------------------- specification --------------------------- *)
Start ==
    /\ queue = <<>>
    /\ exit = FALSE
    /\ listeners = [e \in Events |-> <<>>]
    /\ life = [o \in Owners |-> "held"]
    /\ pc = "idle"
    /\ stack = <<>>
    /\ nTrig = 0 /\ nReg = 0 /\ nOps = 0 /\ nLoops = 0
    /\ popLog = <<>>
    /\ trigLog = <<>>
    /\ log = <<>>
    /\ calls = <<>>
    /\ snap = <<>>
    /\ dirty = {}
    /\ last = NoLast
    /\ result = "none"
    /\ entry = NoEntry
    /\ qeIdle = "no"
    /\ born = [o \in Owners |-> 0]
    /\ tlast = NoCall

\* the application obtained its dispatcher from EventDispatcher.instance();
\* every owner is an object whose truth value is true
Init ==
    /\ Start
    /\ truthy = [o \in Owners |-> TRUE]
    /\ instance = 1
    /\ dispatcher = 1
    /\ objs = [d \in Dispatchers |-> IF d = 1 THEN "live" ELSE "none"]
    /\ dq = [d \in Dispatchers |-> <<>>]
    /\ slast = NoSingletonCall
    /\ stable = 1

Next ==
    \/ \E op \in Ops : App(op)
    \/ CallLoop
    \/ DispatchNextOwner
    \/ DispatchRaise
    \/ DispatchReturn
    \/ \E op \in Ops, raises \in BOOLEAN : Invoke(op, raises)

Spec == Init /\ [][Next]_vars

(* ---------------- runs of single calls on the table of A --------------- *)
\* A callable passed to register_listener or unregister_method: the method
\* func of the object self, or the plain function func (self = None).
\* hasattr(method, '__self__')
HasSelf(m) == m.o # None

\* a register_listener that ignores a callable that is no method
register_listener_call_lenient(tbl, m, d) ==
    IF ~HasSelf(m)
    THEN [tbl |-> tbl, err |-> None]
    ELSE [tbl |-> register_listener(tbl, m.o, m.f, d), err |-> None]

\* a register_listener under which a method has one registration at most
register_listener_call_once(tbl, m, d) ==
    IF ~HasSelf(m)
    THEN [tbl |-> tbl, err |-> "ValueError"]
    ELSE IF KeyIndex(tbl, m.o) # 0
            /\ \E i \in 1..Len(tbl[KeyIndex(tbl, m.o)].fns) :
                  tbl[KeyIndex(tbl, m.o)].fns[i][1] = m.f
         THEN [tbl |-> tbl, err |-> None]
         ELSE [tbl |-> register_listener(tbl, m.o, m.f, d), err |-> None]

\* Event.register_listener(method, listener_data): the table after the call
\* and the exception the call raised
register_listener_call(tbl, m, d) ==
    IF ~HasSelf(m)
    THEN [tbl |-> tbl, err |-> "ValueError"]
    ELSE [tbl |-> register_listener(tbl, m.o, m.f, d), err |-> None]

\* an unregister_method that fails when the owner has no entry
unregister_method_call_strict(tbl, m) ==
    IF HasSelf(m) /\ KeyIndex(tbl, m.o) # 0
    THEN [tbl |-> unregister_method(tbl, m.o, m.f), err |-> None]
    ELSE [tbl |-> tbl, err |-> "KeyError"]

\* Event.unregister_method(method)
unregister_method_call(tbl, m) ==
    IF HasSelf(m)
    THEN [tbl |-> unregister_method(tbl, m.o, m.f), err |-> None]
    ELSE [tbl |-> tbl, err |-> None]

\* Event.unregister_object(instance)
unregister_object_call(tbl, m) ==
    [tbl |-> unregister_object(tbl, m.o), err |-> None]

\* The calls of a run: the callable is a method of an owner or a plain
\* function; the listener_data of the k-th register_listener call is k.
TableCalls ==
    {Op("trigger", "A", None, None, FALSE)}
    \cup {Op("register", "A", o, f, FALSE) : o \in Owners \cup {None}, f \in Funcs}
    \cup {Op("unregister_method", "A", o, f, FALSE) : o \in Owners \cup {None}, f \in Funcs}
    \cup {Op("unregister_object", "A", o, None, FALSE) : o \in Owners}
    \cup {Op("release", None, o, None, FALSE) : o \in Owners}

\* the call is possible and within the bounds of the run; plain functions are
\* interchangeable, and so are the methods of an owner: f comes first
TableCan(c) ==
    /\ c.o # None => life[c.o] # "dead"
    /\ (c.o = None /\ c.f # None) => c.f = "f"
    /\ CASE c.t = "trigger" -> nTrig < MaxTblTrig
         [] c.t = "register" ->
               /\ nReg < MaxTblReg
               /\ (c.o # None /\ c.f = "g") => KeyIndex(listeners["A"], c.o) # 0
         [] c.t \in {"unregister_object", "unregister_method"} -> nOps < MaxTblOps
         [] c.t = "release" -> nOps < MaxTblOps /\ life[c.o] = "held"

\* the table of A after the call, and the exception the call raised
TableAfter(c, tbl, d) ==
    CASE c.t = "register" -> register_listener_call(tbl, c, d)
      [] c.t = "unregister_method" -> unregister_method_call(tbl, c)
      [] c.t = "unregister_object" -> unregister_object_call(tbl, c)
      [] c.t = "release" -> [tbl |-> Purge(tbl, {c.o}), err |-> None]
      [] c.t = "trigger" -> [tbl |-> tbl, err |-> None]

\* application code makes one call while no loop() call runs
TableStep(c) ==
    /\ pc = "idle"
    /\ c \in TableCalls
    /\ TableCan(c)
    /\ LET tbl == listeners["A"]
           d == nReg + 1
           r == TableAfter(c, tbl, d)
       IN
       /\ listeners' = IF c.t = "release" THEN Die(listeners, {c.o})
                       ELSE [listeners EXCEPT !["A"] = r.tbl]
       /\ life' = IF c.t = "release" THEN [life EXCEPT ![c.o] = "dead"] ELSE life
       /\ queue' = IF c.t = "trigger"
                   THEN trigger(queue, stack, listeners, c.e, nTrig + 1).queue
                   ELSE queue
       /\ born' = [o \in Owners |->
                      IF KeyIndex(r.tbl, o) = 0 THEN 0
                      ELSE IF KeyIndex(tbl, o) = 0 THEN d ELSE born[o]]
       /\ tlast' = [call |-> c, before |-> tbl, err |-> r.err, d |-> d, queue |-> queue]
    /\ Count(c)
    /\ last' = NoLast
    /\ log' = <<>>
    /\ result' = "none"
    /\ entry' = NoEntry
    /\ UNCHANGED <<exit, pc, stack, nLoops, popLog, calls, snap, dirty, truthy, svars>>

\* the singleton is as in Init; the truth value of o2 is true or false
InitTable ==
    /\ Start
    /\ truthy \in {[o \in Owners |-> TRUE], [o \in Owners |-> o # "o2"]}
    /\ instance = 1
    /\ dispatcher = 1
    /\ objs = [d \in Dispatchers |-> IF d = 1 THEN "live" ELSE "none"]
    /\ dq = [d \in Dispatchers |-> <<>>]
    /\ slast = NoSingletonCall
    /\ stable = 1

\* the listeners of these runs do nothing and return
NextTable ==
    \/ \E c \in TableCalls : TableStep(c)
    \/ CallLoop
    \/ DispatchNextOwner
    \/ DispatchReturn
    \/ Invoke(Op("none", None, None, None, FALSE), FALSE)

SpecTable == InitTable /\ [][NextTable]_vars

(* ------------------------ runs of the singleton ------------------------ *)
\* the dispatcher object the next construction makes, NoDisp when MaxDisp
\* objects were constructed
Fresh(os) ==
    IF \E d \in Dispatchers : os[d] = "none"
    THEN CHOOSE d \in Dispatchers :
            os[d] = "none" /\ \A e \in Dispatchers : e < d => os[e] # "none"
    ELSE NoDisp

\* EventDispatcher.__init__: if EventDispatcher.__instance: raise RuntimeError
init_raises(inst) == inst # NoDisp

\* EventDispatcher.__del__ of dispatcher object d: the class attribute after it
EventDispatcher_del(inst, d) == NoDisp

\* Event.internal_set_dispatcher(event_dispatcher)
internal_set_dispatcher(d) == d

\* history: the call that is made, and the state it is made in
Call(op, err, ret) ==
    [op |-> op, err |-> err, ret |-> ret, instance |-> instance,
     dispatcher |-> dispatcher, stable |-> stable, objs |-> objs, dq |-> dq]

\* EventDispatcher(): the object is made, and __init__ rejects it when the
\* class has an instance; a rejected object is unreferenced once the
\* RuntimeError is handled, and its __del__ runs
Construct ==
    /\ Fresh(objs) # NoDisp
    /\ LET d == Fresh(objs) IN
       IF init_raises(instance)
       THEN /\ objs' = [objs EXCEPT ![d] = "dead"]
            /\ instance' = EventDispatcher_del(instance, d)
            /\ slast' = Call("construct", "RuntimeError", NoDisp)
       ELSE /\ objs' = [objs EXCEPT ![d] = "live"]
            /\ instance' = instance
            /\ slast' = Call("construct", None, d)
    /\ UNCHANGED <<dispatcher, dq, stable, mvars, tvars>>

\* EventDispatcher.instance()
Instance ==
    /\ instance = NoDisp => Fresh(objs) # NoDisp
    /\ LET d == IF instance = NoDisp THEN Fresh(objs) ELSE instance IN
       /\ objs' = IF instance = NoDisp THEN [objs EXCEPT ![d] = "live"] ELSE objs
       /\ instance' = d
       /\ dispatcher' = IF instance = NoDisp THEN internal_set_dispatcher(d) ELSE dispatcher
       /\ slast' = Call("instance", None, d)
       /\ stable' = IF stable = NoDisp THEN d ELSE stable
    /\ UNCHANGED <<dq, mvars, tvars>>

\* d.__del__() called by the application on a dispatcher it refers to: the
\* explicit reset (the tests' tearDown); the object lives on
CallDel(d) ==
    /\ objs[d] \in {"live", "reset"}
    /\ objs' = [objs EXCEPT ![d] = "reset"]
    /\ instance' = EventDispatcher_del(instance, d)
    /\ slast' = Call("__del__", None, d)
    /\ stable' = NoDisp
    /\ UNCHANGED <<dispatcher, dq, mvars, tvars>>

\* a dispatcher object that neither class refers to, and the application no
\* longer, is destroyed: its __del__ runs
Collect(d) ==
    /\ objs[d] \in {"live", "reset"}
    /\ d # instance
    /\ d # dispatcher
    /\ objs' = [objs EXCEPT ![d] = "dead"]
    /\ dq' = [dq EXCEPT ![d] = <<>>]
    /\ instance' = EventDispatcher_del(instance, d)
    /\ slast' = Call("collect", None, d)
    /\ UNCHANGED <<dispatcher, stable, mvars, tvars>>

\* Event.trigger(event_data) of an event A: Event.__event_dispatcher is None
\* (AttributeError) or a dispatcher, whose queue gets the entry
Trigger ==
    /\ dispatcher # NoDisp => Len(dq[dispatcher]) < MaxDispQueue
    /\ IF dispatcher = NoDisp
       THEN /\ slast' = Call("trigger", "AttributeError", NoDisp)
            /\ dq' = dq
       ELSE /\ slast' = Call("trigger", None, dispatcher)
            /\ dq' = [dq EXCEPT ![dispatcher] =
                         internal_queue_event(@, "A", Len(@) + 1)]
    /\ UNCHANGED <<instance, dispatcher, objs, stable, mvars, tvars>>

\* the process starts: no dispatcher was constructed
InitSingleton ==
    /\ Start
    /\ truthy = [o \in Owners |-> TRUE]
    /\ instance = NoDisp
    /\ dispatcher = NoDisp
    /\ objs = [d \in Dispatchers |-> "none"]
    /\ dq = [d \in Dispatchers |-> <<>>]
    /\ slast = NoSingletonCall
    /\ stable = NoDisp

NextSingleton ==
    \/ Construct
    \/ Instance
    \/ \E d \in Dispatchers : CallDel(d)
    \/ \E d \in Dispatchers : Collect(d)
    \/ Trigger

SpecSingleton == InitSingleton /\ [][NextSingleton]_vars

(* ------------------------------- claims -------------------------------- *)
\* the queue entry a trigger made
Entry(t) == <<t.ev, t.data>>
Entries(ts) == [i \in 1..Len(ts) |-> Entry(ts[i])]

\* the listeners a dispatch invoked, in order: <<owner, f, listener_data>>
Invoked(cs) == [i \in 1..Len(cs) |-> <<cs[i].o, cs[i].f, cs[i].ld>>]

\* a dispatch has just ended and loop() goes on
JustEnded == last.how # "none"

\* C1: the events loop() has popped are, in order, the events triggered first,
\* and the queue holds the events triggered after them in trigger order; so
\* an event a listener triggers during a dispatch is popped after every event
\* that was queued at that moment.
C1_Fifo ==
    /\ Len(popLog) <= Len(trigLog)
    /\ popLog = SubSeq(Entries(trigLog), 1, Len(popLog))
    /\ queue = SubSeq(Entries(trigLog), Len(popLog) + 1, Len(trigLog))

\* C1 witness: event 3 was triggered by a listener during the dispatch of
\* event 1 while event 2 was queued, and was popped after event 2.
C1_Witness ==
    /\ Len(popLog) >= 3
    /\ trigLog[3].during = 1
    /\ popLog[1][2] = 1 /\ popLog[2][2] = 2 /\ popLog[3][2] = 3

\* C2: at most one dispatch is in progress, it is the one loop() began last;
\* every trigger has only put an entry in the queue (each triggered event is
\* either popped or still queued); and when loop() goes on after a dispatch,
\* that dispatch has run to its end and the next one has not yet invoked
\* anything.
C2_RunToCompletion ==
    /\ Len(stack) <= 1
    /\ (stack = <<>>) <=> (pc = "idle")
    /\ stack # <<>> =>
          /\ log # <<>>
          /\ log[Len(log)].ev = Top.ev
          /\ log[Len(log)].data = Top.data
    /\ Len(queue) + Len(popLog) = Len(trigLog)
    /\ (JustEnded /\ pc # "idle") =>
          /\ last.how = "complete"
          /\ calls = <<>>
          /\ Top.obj = None

\* C2 witness: a listener has triggered an event during a dispatch that still
\* has callbacks to invoke; the event waits in the queue.
C2_Witness ==
    /\ stack # <<>>
    /\ pc = "L130"
    /\ log[Len(log)].nt > 0
    /\ ~InnerDone(Top)
    /\ queue # <<>>
    /\ trigLog[Len(trigLog)].during = Top.data

\* C3 (as claimed): a dispatch during which no owner died, whatever listeners
\* registered or unregistered, runs to its end and invokes exactly the
\* listeners that were registered when it began.
C3_Snapshot ==
    (JustEnded /\ "death" \notin last.dirty) =>
        /\ last.how = "complete"
        /\ Invoked(last.calls) = last.snap

\* C4: a listener that raises does not end the dispatch or the loop (a
\* dispatch is only ever aborted after its table was changed); the dispatch
\* of an unchanged table invokes every registered listener whether or not
\* some of them raise.
C4_FailureIsolation ==
    /\ (calls # <<>> /\ calls[Len(calls)].raised) =>
          /\ stack # <<>>
          /\ pc # "idle"
          /\ result = "none"
    /\ (JustEnded /\ last.how = "aborted") => last.dirty # {}
    /\ (JustEnded /\ last.dirty = {}) => Invoked(last.calls) = last.snap

\* C4 witness: in the dispatch of a popped event the first listener raised,
\* the listeners after it (of the same and of another owner) were invoked,
\* and loop() has popped the next event.
C4_Witness ==
    /\ JustEnded
    /\ last.at = "L130"
    /\ pc = "L130"
    /\ Len(last.calls) >= 2
    /\ last.calls[1].raised
    /\ last.calls[2].o # last.calls[1].o
    /\ Invoked(last.calls) = last.snap

\* C5: a dead owner is no key of any listener table; a callback is only ever
\* invoked on an owner that is alive; and the step in which an owner dies
\* leaves the entries of the other owners as they were.
Without(tbl, dead) ==
    Flatten([i \in 1..Len(tbl) |->
                IF tbl[i].ref \in dead THEN Slot(Tomb, <<>>) ELSE tbl[i]])

C5_LifetimeCleanup ==
    [][ LET dead == {o \in Owners : life'[o] = "dead"}
            died == {o \in dead : life[o] # "dead"}
        IN
        /\ \A o \in dead, e \in Events : KeyIndex(listeners'[e], o) = 0
        /\ (Len(calls') = Len(calls) + 1) => life[calls'[Len(calls')].o] # "dead"
        /\ died # {} =>
              \A e \in Events : Flatten(listeners'[e]) = Without(listeners[e], died)
      ]_vars

\* C5 witness: o1 was registered on event A before o2 and died; a dispatch
\* of A has since run to its end and invoked o2's listener only.
C5_Witness ==
    /\ life["o1"] = "dead"
    /\ JustEnded
    /\ last.ev = "A"
    /\ last.how = "complete"
    /\ Len(listeners["A"]) = 2
    /\ listeners["A"][1].ref = Tomb
    /\ listeners["A"][2].ref = "o2"
    /\ Len(last.calls) = 1
    /\ last.calls[1].o = "o2"

\* the dispatches loop() made, as <<event, event_data>>
Dispatched(l) == [i \in 1..Len(l) |-> <<l[i].ev, l[i].data>>]

\* the number of dispatches of event e in l
Times(l, e) == Cardinality({i \in 1..Len(l) : l[i].ev = e})

\* the number of events listeners triggered during the dispatches of l
RECURSIVE Triggered(_)
Triggered(l) == IF l = <<>> THEN 0 ELSE Head(l).nt + Triggered(Tail(l))

\* the loop() call that has just returned began with exit false and no
\* listener assigned exit during it
ExitLeftAlone == result = "returned" /\ ~entry.exit /\ ~entry.set

\* C6: when a loop() call returns that began with exit false and k queued
\* events, during which no listener triggered an event or assigned exit, it
\* has dispatched loop_start, the k events in queue order, queue_empty once,
\* and loop_end, in this order.
C6_Lifecycle ==
    (ExitLeftAlone /\ Triggered(log) = 0) =>
        Dispatched(log) = <<<<"loop_start", 0>>>> \o entry.queue
                          \o <<<<"queue_empty", 0>>, <<"loop_end", 0>>>>

\* C6 witness: such a call with two events queued beforehand and a loop_end
\* listener that ran.
C6_Witness ==
    /\ ExitLeftAlone
    /\ Triggered(log) = 0
    /\ Len(entry.queue) = 2
    /\ last.ev = "loop_end"
    /\ last.calls # <<>>

\* C7: when a loop() call returns that began with exit false and an empty
\* queue, during which only queue_empty listeners triggered events, at most
\* one per queue_empty dispatch, n in all, and no listener assigned exit, it
\* has dispatched loop_start, then n times queue_empty (one event triggered)
\* followed by that event, then queue_empty once more (nothing triggered),
\* then loop_end: queue_empty n + 1 times.
C7_KeepAlive ==
    LET n == Triggered(log) IN
    ( /\ ExitLeftAlone
      /\ entry.queue = <<>>
      /\ \A i \in 1..Len(log) :
            IF log[i].ev = "queue_empty" THEN log[i].nt <= 1 ELSE log[i].nt = 0 )
    =>
    /\ Times(log, "queue_empty") = n + 1
    /\ Len(log) = 2 * n + 3
    /\ log[1].ev = "loop_start"
    /\ \A i \in 1..n :
          /\ log[2 * i].ev = "queue_empty" /\ log[2 * i].nt = 1
          /\ log[2 * i + 1].ev \in UserEvents
    /\ log[2 * n + 2].ev = "queue_empty" /\ log[2 * n + 2].nt = 0
    /\ log[2 * n + 3].ev = "loop_end"

\* C7 witness: such a call in which the queue_empty listener triggered an
\* event on its first two invocations: queue_empty was dispatched 3 times.
C7_Witness ==
    /\ ExitLeftAlone
    /\ entry.queue = <<>>
    /\ \A i \in 1..Len(log) :
          IF log[i].ev = "queue_empty" THEN log[i].nt <= 1 ELSE log[i].nt = 0
    /\ Triggered(log) = 2
    /\ Times(log, "queue_empty") = 3

\* loop() has just begun a dispatch of queue_empty
QueueEmptyStarts ==
    /\ stack # <<>>
    /\ pc \in {"L125", "L133"}
    /\ Top.ev = "queue_empty"
    /\ Top.pos = 0
    /\ Top.obj = None

\* C8 (as claimed): no dispatch of queue_empty starts while exit is true, nor
\* after a queue_empty dispatch has left the queue empty, unless exit was set
\* back to false in between.
C8_NeverAskedAgain ==
    QueueEmptyStarts => (~exit /\ qeIdle = "no")

\* C8 (amended): no dispatch of queue_empty starts while exit is true; a
\* queue_empty dispatch made inside the while loop that leaves the queue
\* empty sets exit (and exit stays true until it is set back to false), so
\* no queue_empty dispatch follows it.  A queue_empty dispatch made before
\* the while loop does not set exit.
C8_NotWhileExit ==
    /\ QueueEmptyStarts => ~exit
    /\ qeIdle = "drain" => exit
    /\ (JustEnded /\ last.at = "L133" /\ last.how = "complete") =>
          \/ pc = "L130"
          \/ pc = "L137" /\ exit /\ qeIdle = "drain"
    /\ (JustEnded /\ last.at = "L125" /\ last.how = "complete" /\ ~entry.set) =>
          exit = entry.exit

\* C8 witness: a queue_empty dispatch inside the while loop of the first
\* loop() call left the queue empty; the second call popped an event, found
\* the queue empty and returned without a dispatch of queue_empty.
C8_Witness ==
    /\ nLoops = 2
    /\ result = "returned"
    /\ exit
    /\ qeIdle = "drain"
    /\ Times(log, "queue_empty") = 0
    /\ Len(log) >= 3

\* C9 (as claimed): a loop() call that has ended, however it ended and
\* whatever listeners did to the listener tables (no owner died), has
\* dispatched loop_end exactly once, as its last dispatch.
C9_LoopEndOnce ==
    (result # "none" /\ "death" \notin last.dirty) =>
        /\ log # <<>>
        /\ log[Len(log)].ev = "loop_end"
        /\ Times(log, "loop_end") = 1

\* C10 (as claimed): a loop() call during which every listener returned (none
\* raised, no owner died) ends by returning after the dispatch of loop_end;
\* and loop_end is dispatched when the queue is empty and exit is true or
\* the dispatch before it was one of queue_empty.
C10_Terminates ==
    /\ (result # "none" /\ ~entry.raised /\ "death" \notin last.dirty) =>
          result = "returned"
    /\ (JustEnded /\ pc = "L137") =>
          /\ queue = <<>>
          /\ exit \/ last.ev = "queue_empty"


\* the entries of owner o in a sequence of <<owner, f, listener_data>>
OfOwner(es, o) == LET Is(x) == x[1] = o IN SelectSeq(es, Is)

\* the number of keys owner o has in the table
Keys(tbl, o) == Cardinality({i \in 1..Len(tbl) : tbl[i].ref = o})

\* a register_listener call with a method has just been made
Registered == tlast.call.t = "register" /\ tlast.call.o # None

\* C11: every register_listener call with a method of an owner adds one entry
\* with its listener_data behind the entries the owner has, under the single
\* key of the owner, also when the same method is registered again; and a
\* dispatch invokes the entries of an owner (whose truth value is true) once
\* each, in that order, with the listener_data they were registered with.
C11_DuplicateRegistration ==
    /\ Registered =>
          LET o == tlast.call.o IN
          /\ OfOwner(Flatten(listeners["A"]), o)
                = Append(OfOwner(Flatten(tlast.before), o), <<o, tlast.call.f, tlast.d>>)
          /\ Keys(listeners["A"], o) = 1
    /\ (JustEnded /\ last.how = "complete" /\ last.dirty = {}) =>
          \A o \in Owners :
              truthy[o] => OfOwner(Invoked(last.calls), o) = OfOwner(last.snap, o)

\* the method f of o1 was registered three times and a dispatch of A has
\* invoked it three times, with the listener_data 1, 2, 3 in this order
C11_Witness ==
    /\ JustEnded /\ last.ev = "A" /\ last.how = "complete"
    /\ Invoked(last.calls) = << <<"o1", "f", 1>>, <<"o1", "f", 2>>, <<"o1", "f", 3>> >>
    /\ Keys(listeners["A"], "o1") = 1
    /\ Used(listeners["A"]) = 1


\* the dispatcher objects that exist and were not reset
Existing(os) == {d \in Dispatchers : os[d] = "live"}

\* C12: at most one dispatcher exists at any time, and a construction made
\* while a dispatcher exists fails, however that dispatcher was created.
C12_SingleInstance ==
    /\ Cardinality(Existing(objs)) <= 1
    /\ (slast.op = "construct" /\ Existing(slast.objs) # {}) => slast.err = "RuntimeError"

\* C13: once instance() has returned a dispatcher, every later instance()
\* call returns that dispatcher, until the caller resets the singleton.
C13_StableSingleton ==
    slast.op = "instance" => slast.ret = stable

\* an unregister call has just been made
Unregistered == tlast.call.t \in {"unregister_object", "unregister_method"}

\* the method f is among the entries of owner o in the table
HasEntry(tbl, o, f) == \E i \in 1..Len(Flatten(tbl)) : Flatten(tbl)[i][1] = o /\ Flatten(tbl)[i][2] = f

\* the unregister call that has just been made had no target: the owner had
\* no entry, the callable was a plain function, or the method was not among
\* the entries of its owner
MissingTarget ==
    \/ tlast.call.t = "unregister_object" /\ KeyIndex(tlast.before, tlast.call.o) = 0
    \/ tlast.call.t = "unregister_method" /\ ~HasEntry(tlast.before, tlast.call.o, tlast.call.f)

\* C14: an unregister call raises nothing; one without a target leaves the
\* table as it was; and to make an unregister call a second time changes
\* nothing: the table after two calls is the table after one.
C14_UnregisterNoOp ==
    /\ Unregistered => tlast.err = None
    /\ (Unregistered /\ MissingTarget) => listeners["A"] = tlast.before
    /\ \A c \in TableCalls :
          c.t \in {"unregister_object", "unregister_method"} =>
              LET once == TableAfter(c, listeners["A"], 0).tbl IN
              TableAfter(c, once, 0).tbl = once

\* unregister_method was called with a method its owner has not registered,
\* while the owner had an entry for another method, and the table is as before
C14_Witness ==
    /\ tlast.call.t = "unregister_method"
    /\ tlast.call.o = "o1" /\ tlast.call.f = "g"
    /\ HasEntry(tlast.before, "o1", "f")
    /\ MissingTarget
    /\ listeners["A"] = tlast.before

\* C16: register_listener with a callable that is not a method of an object
\* raises ValueError and leaves the table and the queue as they were.
C16_InvalidListener ==
    (tlast.call.t = "register" /\ tlast.call.o = None) =>
        /\ tlast.err = "ValueError"
        /\ listeners["A"] = tlast.before
        /\ queue = tlast.queue

\* a plain function was passed to register_listener while the table had
\* entries and the queue an event
C16_Witness ==
    /\ tlast.call.t = "register" /\ tlast.call.o = None
    /\ tlast.err = "ValueError"
    /\ Flatten(tlast.before) # <<>>
    /\ tlast.queue # <<>>

\* the entries of es whose method is not f
NotOf(es, f) == LET Other(x) == x[2] # f IN SelectSeq(es, Other)

\* C17: in every table every key has a callback, and an owner has one key
\* at most; unregister_method with a method of an owner removes all entries
\* of that owner with that method, drops the key when none is left, keeps
\* the owner's other entries in their order and leaves other owners alone.
C17_TableInvariant ==
    /\ \A e \in Events : \A i \in 1..Len(listeners[e]) :
          listeners[e][i].ref # Tomb => listeners[e][i].fns # <<>>
    /\ \A e \in Events : \A o \in Owners :
          /\ Keys(listeners[e], o) <= 1
          /\ OfOwner(Flatten(listeners[e]), o) # <<>> => Keys(listeners[e], o) = 1
    /\ (tlast.call.t = "unregister_method" /\ tlast.call.o # None) =>
          \A o \in Owners :
              /\ OfOwner(Flatten(listeners["A"]), o)
                    = IF o = tlast.call.o
                      THEN NotOf(OfOwner(Flatten(tlast.before), o), tlast.call.f)
                      ELSE OfOwner(Flatten(tlast.before), o)
              /\ Keys(listeners["A"], o) = 0 <=> OfOwner(Flatten(listeners["A"]), o) = <<>>

\* o1 had registered f, g and f again, and unregister_method(o1.f) has left
\* the entry of g under the key of o1
C17_Witness ==
    /\ tlast.call.t = "unregister_method" /\ tlast.call.o = "o1" /\ tlast.call.f = "f"
    /\ Flatten(tlast.before) = << <<"o1", "f", 1>>, <<"o1", "g", 2>>, <<"o1", "f", 3>> >>
    /\ Flatten(listeners["A"]) = << <<"o1", "g", 2>> >>
    /\ Keys(listeners["A"], "o1") = 1

\* C15: while no dispatcher exists (instance() was never called, or not
\* since the caller reset the singleton) trigger fails and no queue gets an
\* entry; while one exists trigger appends one entry to the queue of a
\* dispatcher that exists and to no other queue.
C15_TriggerNeedsDispatcher ==
    slast.op = "trigger" =>
        IF slast.stable = NoDisp
        THEN slast.err # None /\ dq = slast.dq
        ELSE /\ slast.err = None
             /\ \E d \in Existing(slast.objs), n \in 1..MaxDispQueue :
                   dq = [slast.dq EXCEPT ![d] = Append(@, <<"A", n>>)]


\* C18: the callbacks a dispatch invokes are grouped by owner; the owners come
\* in the order in which their present keys were inserted in the table (born:
\* an owner that lost its key and registered again comes after the owners
\* that kept theirs), and the callbacks of one owner in registration order
\* (the listener_data of a registration is its number among all calls).
C18_DispatchOrder ==
    (JustEnded /\ last.ev = "A" /\ last.how = "complete") =>
        \A i, j \in 1..Len(last.calls) :
            i < j =>
                IF last.calls[i].o = last.calls[j].o
                THEN last.calls[i].ld < last.calls[j].ld
                ELSE born[last.calls[i].o] < born[last.calls[j].o]

\* o1 registered first and o2 second, o1 was unregistered and registered
\* again, then o2 registered g: the dispatch invokes o2 before o1, and the
\* fourth registration before the third
C18_Witness ==
    /\ JustEnded /\ last.ev = "A" /\ last.how = "complete"
    /\ Invoked(last.calls) = << <<"o2", "f", 2>>, <<"o2", "g", 4>>, <<"o1", "f", 3>> >>
    /\ listeners["A"][1].ref = Tomb
    /\ born["o1"] = 3 /\ born["o2"] = 2


\* C19: a dispatch during which nothing changed the table invokes every
\* registered (callback, listener_data) pair of every owner in the table
\* once, with that owner, whatever the truth value of the owner is.
C19_LiveOwnersServed ==
    (JustEnded /\ last.how = "complete" /\ last.dirty = {}) =>
        Invoked(last.calls) = last.snap

\* C20: a dispatch during which an owner died, and nothing else changed the
\* table, is not aborted.
C20_DeathTolerated ==
    (JustEnded /\ last.dirty = {"death"}) => last.how = "complete"


\* the queue entries the loop() call of log has popped: the last ones of popLog
PoppedIn(l) == SubSeq(popLog, Len(popLog) - (Len(l) - 2) + 1, Len(popLog))

\* C21: when a dispatch of loop_start or of a popped event has returned and
\* exit is true, loop() pops the next queue entry or, with an empty queue,
\* goes on to loop_end, and does not dispatch queue_empty; loop_end is begun
\* with an empty queue only; and a loop() call that began with exit true, and
\* has returned without a listener assigning exit, has dispatched loop_start,
\* the events queued at its begin followed by the events triggered while it
\* drained, in queue order, and loop_end, and no queue_empty.
C21_ExitKeepsWork ==
    /\ (JustEnded /\ last.how = "complete" /\ last.at \in {"L122", "L130"} /\ exit) =>
          pc \in {"L130", "L137"}
    /\ (JustEnded /\ last.how = "complete" /\ pc = "L137") => queue = <<>>
    /\ (result = "returned" /\ entry.exit /\ ~entry.set) =>
          /\ Times(log, "queue_empty") = 0
          /\ Len(log) - 2 <= Len(popLog)
          /\ Dispatched(log) = <<<<"loop_start", 0>>>> \o PoppedIn(log)
                                \o <<<<"loop_end", 0>>>>
          /\ Len(PoppedIn(log)) = Len(entry.queue) + Triggered(log) - log[Len(log)].nt
          /\ SubSeq(PoppedIn(log), 1, Len(entry.queue)) = entry.queue

\* a loop() call has returned that began with exit true and two events
\* queued, during which a listener of the first triggered a third: all three
\* were dispatched, and no queue_empty
C21_Witness ==
    /\ result = "returned" /\ entry.exit /\ ~entry.set
    /\ Len(entry.queue) = 2
    /\ Len(log) = 5
    /\ log[2].nt = 1
    /\ queue = <<>>


\* C22: a construction that fails because the class has an instance leaves
\* the singleton as it was: EventDispatcher.__instance, which instance()
\* returns, and the dispatcher Event.trigger queues on are the same as before.
C22_RejectedConstruction ==
    (slast.op = "construct" /\ slast.err = "RuntimeError") =>
        /\ instance = slast.instance
        /\ dispatcher = slast.dispatcher


\* the popped events among the dispatches of a loop() call, in order
UserOf(l) == LET IsUser(x) == x[1] \in UserEvents IN SelectSeq(Dispatched(l), IsUser)

\* p is a prefix of q
IsPrefix(p, q) == Len(p) <= Len(q) /\ p = SubSeq(q, 1, Len(p))

\* the queue when loop() has returned, n events having been triggered during
\* the dispatch of loop_end: these n, in trigger order; all events triggered
\* before them were popped once, the last of them in this call
AtReturn(q, l, pl, tl) ==
    LET n == l[Len(l)].nt IN
    /\ l[Len(l)].ev = "loop_end"
    /\ n <= Len(tl)
    /\ q = SubSeq(Entries(tl), Len(tl) - n + 1, Len(tl))
    /\ pl \o q = Entries(tl)
    /\ Len(UserOf(l)) <= Len(pl)
    /\ UserOf(l) = SubSeq(pl, Len(pl) - Len(UserOf(l)) + 1, Len(pl))

\* C23: when loop() returns, the queue holds the events that loop_end
\* listeners triggered during the call, in trigger order, and every event
\* triggered before them was popped once and dispatched; between two calls
\* the application only appends to the queue, the next call begins with that
\* queue, and the events a call pops first are the ones queued at its begin,
\* in order: the events left at return are the first the next call pops.
C23_QueueAtReturn ==
    [][ /\ result' = "returned" => AtReturn(queue', log', popLog', trigLog')
        /\ (pc = "idle" /\ pc' = "idle") => IsPrefix(queue, queue')
        /\ (pc = "idle" /\ pc' # "idle") => entry'.queue = queue
        /\ pc' # "idle" =>
              \/ IsPrefix(UserOf(log'), entry'.queue)
              \/ IsPrefix(entry'.queue, UserOf(log')) ]_vars

\* a loop() call has returned that dispatched one event, and two loop_end
\* listeners each triggered an event during it: these two are in the queue
C23_Witness ==
    /\ result = "returned"
    /\ log[Len(log)].ev = "loop_end" /\ log[Len(log)].nt = 2
    /\ Len(UserOf(log)) = 1
    /\ queue = << <<"A", 2>>, <<"A", 3>> >>

=============================================================================
